---- MODULE Spec2Model ----
(***************************************************************************)
(* Model of googleapiwrapper/gmail_api.py: the paginated thread fetch of   *)
(* GmailWrapper.query_threads_with_paging, the Progress counters, the      *)
(* ApiConversionContext anomaly buffers and the recursive message parser.  *)
(*                                                                         *)
(* Encodings.  A raw API record (a Python dict) is a function from a set   *)
(* of key strings to values, so that a missing key is a key outside the    *)
(* DOMAIN.  Python None is the string "None" for string-typed values, -1   *)
(* for the int-typed limit and 0 for object references (a context id, a    *)
(* list request).  Thread ids are the numbers 1..MaxThreads.               *)
(***************************************************************************)
EXTENDS Integers, Sequences, FiniteSets, TLC

\* ------------------------------------------------------------------ bounds
MaxThreads == 3
MaxPages == 2
MaxLimit == 2
MaxCalls == 2
NumCallers == 2
MaxParts == 3
MaxRequests == 3
ConcMaxThreads == 1
MaxDescriptors == 2

\* ------------------------------------------------------- program constants
DEFAULT_PAGE_SIZE == 100

None == "None"
NoLimit == -1
NoRef == 0

ThreadIds == 1..MaxThreads
Callers == 1..NumCallers
CtxIds == 1..(NumCallers + 1)
Limits == {NoLimit} \cup (0..MaxLimit)

\* ----------------------------------------------------------- sequence help
RECURSIVE Concat(_)
Concat(ss) == IF ss = <<>> THEN <<>> ELSE Head(ss) \o Concat(Tail(ss))

RECURSIVE SelectNotIn(_, _)
SelectNotIn(seq, S) ==
    IF seq = <<>> THEN <<>>
    ELSE (IF Head(seq) \in S THEN <<>> ELSE <<Head(seq)>>) \o SelectNotIn(Tail(seq), S)

Range(seq) == {seq[i] : i \in 1..Len(seq)}

\* Python truthiness of an optional string: None and "" are falsy.
Truthy(v) == v /= None /\ v /= ""

\* ------------------------------------------------- GenericObjectHelper (GH)
\* GH.get_field(obj, field, default): the value under the key, the default
\* when the key is missing.
get_field(obj, field, default) ==
    IF field \in DOMAIN obj THEN obj[field] ELSE default

\* -------------------------------------------------------------- the parser
\* _parse_headers: one Header(name, value) per record of the headers list.
parse_headers(message_part) ==
    LET headers_list == get_field(message_part, "headers", None)
    IN  [i \in 1..Len(headers_list) |->
            [name  |-> get_field(headers_list[i], "name", None),
             value |-> get_field(headers_list[i], "value", None)]]

parse_message_part_body_obj_no_attachment(messagepart_body) ==
    [data         |-> get_field(messagepart_body, "data", None),
     size         |-> get_field(messagepart_body, "size", None),
     attachmentId |-> None]

\* _parse_message_part_body_obj: MessagePartBody(data, size, attachmentId).
parse_message_part_body_obj(messagepart_body) ==
    [data         |-> get_field(messagepart_body, "data", None),
     size         |-> get_field(messagepart_body, "size", None),
     attachmentId |-> get_field(messagepart_body, "attachmentId", None)]

RECURSIVE parse_message_part_first_child_only(_, _)
parse_message_part_first_child_only(message_part, message_id) ==
    LET message_parts == get_field(message_part, "parts", <<>>)
    IN  [id       |-> get_field(message_part, "partId", None),
         mimeType |-> get_field(message_part, "mimeType", None),
         headers  |-> parse_headers(message_part),
         body     |-> parse_message_part_body_obj(get_field(message_part, "body", None)),
         parts    |-> [i \in 1..(IF Len(message_parts) > 0 THEN 1 ELSE 0) |->
                          parse_message_part_first_child_only(message_parts[i], message_id)]]

\* parse_message_part: MessagePart(id, mimeType, headers, body, parts) with
\* the child parts parsed recursively, in order.
RECURSIVE parse_message_part(_, _)
parse_message_part(message_part, message_id) ==
    LET message_parts == get_field(message_part, "parts", <<>>)
    IN  [id       |-> get_field(message_part, "partId", None),
         mimeType |-> get_field(message_part, "mimeType", None),
         headers  |-> parse_headers(message_part),
         body     |-> parse_message_part_body_obj(get_field(message_part, "body", None)),
         parts    |-> [i \in 1..Len(message_parts) |->
                          parse_message_part(message_parts[i], message_id)]]

\* datetime.fromtimestamp(int(internalDate) / 1000): epoch milliseconds as
\* whole seconds plus the microseconds of the remainder.
FromTimestampMillis(ms) == [seconds |-> ms \div 1000, microsecond |-> (ms % 1000) * 1000]

\* Message.subject (gmail_domain): the value of the payload's Subject header.
SubjectOf(payload) ==
    LET hits == {i \in 1..Len(payload.headers) : payload.headers[i].name = "Subject"}
    IN  IF hits = {} THEN None
        ELSE payload.headers[CHOOSE i \in hits : \A j \in hits : i <= j].value

\* parse_api_message: Message(id, threadId, date, snippet, payload).
parse_api_message(message) ==
    LET message_part     == get_field(message, "payload", None)
        message_id       == get_field(message, "id", None)
        message_part_obj == parse_message_part(message_part, message_id)
    IN  [id       |-> message_id,
         threadId |-> get_field(message, "threadId", None),
         date     |-> FromTimestampMillis(get_field(message, "internalDate", None)),
         snippet  |-> get_field(message, "snippet", None),
         payload  |-> message_part_obj,
         subject  |-> SubjectOf(message_part_obj)]

\* ------------------------------------------------------------- Progress
NewProgress_one_processed(limit) ==
    [requests_count |-> 0, all_items_count |-> 0, processed_items |-> 1,
     new_items_with_last_request |-> -1, limit |-> limit]

NewProgress(limit) ==
    [requests_count |-> 0, all_items_count |-> 0, processed_items |-> 0,
     new_items_with_last_request |-> -1, limit |-> limit]

incr_requests(p) == [p EXCEPT !.requests_count = @ + 1]

register_new_items(p, number_of_new_items) ==
    [p EXCEPT !.all_items_count = @ + number_of_new_items,
              !.new_items_with_last_request = number_of_new_items]

incr_processed_items_noop(p) == p

incr_processed_items(p) == [p EXCEPT !.processed_items = @ + 1]

is_limit_reached_never(p) == FALSE

\* `if self.limit:` is Python truthiness: None and 0 both take the
\* `return False` branch.
is_limit_reached(p) ==
    IF p.limit /= NoLimit /\ p.limit /= 0 THEN p.processed_items > p.limit ELSE FALSE

\* ------------------------------------------------- ApiConversionContext
NewContext(limit) ==
    [progress |-> NewProgress(limit), decode_errors |-> <<>>, empty_bodies |-> <<>>,
     current_message |-> None, current_message_part |-> None]

register_current_message(c, message) == [c EXCEPT !.current_message = message]

register_current_message_part(c, message_part) ==
    [c EXCEPT !.current_message_part = message_part]

MessagePartDescriptor(message, message_part, gmail_msg_body_part) ==
    [message |-> message, message_part |-> message_part,
     gmail_msg_body_part |-> gmail_msg_body_part]

report_decode_error(c, gmail_msg_body_part) ==
    [c EXCEPT !.decode_errors = Append(@,
        MessagePartDescriptor(c.current_message, c.current_message_part, gmail_msg_body_part))]

report_empty_body(c, gmail_msg_body_part) ==
    [c EXCEPT !.empty_bodies = Append(@,
        MessagePartDescriptor(c.current_message, c.current_message_part, gmail_msg_body_part))]

handle_encoding_errors(c) == [c EXCEPT !.decode_errors = <<>>]

query_attachment_of_descriptor_message_id_only(descriptor) ==
    LET message_id    == descriptor.message.id
        attachment_id == descriptor.message_part.body.attachmentId
    IN  IF ~Truthy(message_id)
        THEN <<>>
        ELSE <<[userId |-> "me", messageId |-> message_id, id |-> attachment_id]>>

\* _query_attachment_of_descriptor: the attachments.get requests it issues
\* (none when either id is falsy; the error is only logged).
query_attachment_of_descriptor(descriptor) ==
    LET message_id    == descriptor.message.id
        attachment_id == descriptor.message_part.body.attachmentId
    IN  IF ~Truthy(message_id) \/ ~Truthy(attachment_id)
        THEN <<>>
        ELSE <<[userId |-> "me", messageId |-> message_id, id |-> attachment_id]>>

\* The position, from `from` on, of the first buffered descriptor for which
\* the handler sends an attachments.get request and waits for its answer;
\* 0 when there is none.
NextFetchIndex(buffer, from) ==
    LET fetching == {i \in from..Len(buffer) :
                        query_attachment_of_descriptor(buffer[i]) /= <<>>}
    IN  IF fetching = {} THEN 0
        ELSE CHOOSE i \in fetching : \A j \in fetching : i <= j

handle_empty_bodies_keep_buffer(c, from) ==
    LET buffer == c.empty_bodies
        j      == NextFetchIndex(buffer, from)
    IN  IF j /= 0
        THEN [calls |-> SubSeq(buffer, from, j),
              requests |-> query_attachment_of_descriptor(buffer[j]),
              next |-> j + 1, done |-> FALSE, ctx |-> c]
        ELSE [calls |-> SubSeq(buffer, from, Len(buffer)), requests |-> <<>>,
              next |-> 1, done |-> TRUE, ctx |-> c]

\* handle_empty_bodies(func), resumed at position `from` of the buffer: func
\* is called on the buffered descriptors in buffer order (calls) up to the
\* first one whose attachments.get request is sent (requests), where the
\* call waits for the answer; when no descriptor is left to wait on, the
\* loop ends and the buffer is cleared (done, ctx).
handle_empty_bodies(c, from) ==
    LET buffer == c.empty_bodies
        j      == NextFetchIndex(buffer, from)
    IN  IF j /= 0
        THEN [calls |-> SubSeq(buffer, from, j),
              requests |-> query_attachment_of_descriptor(buffer[j]),
              next |-> j + 1, done |-> FALSE, ctx |-> c]
        ELSE [calls |-> SubSeq(buffer, from, Len(buffer)), requests |-> <<>>,
              next |-> 1, done |-> TRUE, ctx |-> [c EXCEPT !.empty_bodies = <<>>]]

\* ----------------------------------- anomaly reporting of gmail_domain
\* The Message constructor walks the payload tree in pre-order and reports
\* into the module-global context: an inline data blob that does not decode
\* is a decode error, a body with neither data nor attachment id is an
\* empty body.
Base64Decodable(data) == data \in {"aGk", "b2s"}

IsEmptyBody(body) == ~Truthy(body.data) /\ ~Truthy(body.attachmentId)

IsDecodeError(body) == Truthy(body.data) /\ ~Base64Decodable(body.data)

RECURSIVE AllParts(_)
AllParts(part) ==
    <<part>> \o Concat([i \in 1..Len(part.parts) |-> AllParts(part.parts[i])])

ReportPart(c, part) ==
    LET c1 == register_current_message_part(c, part)
        gmail_msg_body_part == [body |-> part.body.data, mime_type |-> part.mimeType]
    IN  IF IsDecodeError(part.body) THEN report_decode_error(c1, gmail_msg_body_part)
        ELSE IF IsEmptyBody(part.body) THEN report_empty_body(c1, gmail_msg_body_part)
        ELSE c1

\* (Each intermediate context is bound as a value before the next part is
\* reported.)
RECURSIVE ReportParts(_, _)
ReportParts(c, parts) ==
    IF parts = <<>> THEN c
    ELSE CHOOSE r \in {ReportParts(ReportPart(cc, Head(parts)), Tail(parts)) : cc \in {c}} : TRUE

ReportMessage(c, message) ==
    ReportParts(register_current_message(c, message), AllParts(message.payload))

RECURSIVE ReportMessages(_, _)
ReportMessages(c, messages) ==
    IF messages = <<>> THEN c
    ELSE ReportMessages(ReportMessage(c, Head(messages)), Tail(messages))

\* ------------------------------------------------------- raw API records
HeaderRec(n, v) == [name |-> n, value |-> v]

ShapePlain ==
    [partId |-> "0", mimeType |-> "text/plain",
     headers |-> <<HeaderRec("Subject", "hello"), HeaderRec("To", "me")>>,
     body |-> [size |-> 2, data |-> "aGk"]]

ShapeUndecodable ==
    [partId |-> "1", mimeType |-> "text/html",
     headers |-> <<HeaderRec("Content-Type", "text/html")>>,
     body |-> [size |-> 1, data |-> "#"]]

ShapeAttachment ==
    [partId |-> "2", mimeType |-> "application/pdf",
     headers |-> <<>>,
     body |-> [size |-> 5, attachmentId |-> "att"]]

ShapeEmpty ==
    [partId |-> "3", mimeType |-> "multipart/mixed",
     headers |-> <<HeaderRec("Subject", "multi")>>,
     body |-> [size |-> 0]]

Shapes == {ShapePlain, ShapeUndecodable, ShapeAttachment, ShapeEmpty}

\* A raw part: a leaf has no "parts" key.
RawNode(shape, children) ==
    IF children = <<>> THEN shape ELSE [parts |-> children] @@ shape

\* Raw part trees with exactly n parts / forests with exactly n parts.
RECURSIVE RawTreesOfSize(_), RawForestsOfSize(_)
RawTreesOfSize(n) ==
    {RawNode(sh, f) : sh \in Shapes, f \in RawForestsOfSize(n - 1)}

RawForestsOfSize(n) ==
    IF n = 0 THEN {<<>>}
    ELSE UNION {{<<t>> \o f : t \in RawTreesOfSize(j), f \in RawForestsOfSize(n - j)} : j \in 1..n}

RawTrees == UNION {RawTreesOfSize(n) : n \in 1..MaxParts}

RawMessage(id, thread_id, payload) ==
    (IF id = None THEN <<>> ELSE [id |-> id]) @@
    [threadId |-> thread_id, internalDate |-> 1500, snippet |-> "snip", payload |-> payload]

RawMessages == {RawMessage(id, "t", payload) : id \in {"m1", None}, payload \in RawTrees}

\* threads.get of the service: the detail record of a thread.
ThreadDetail(thread_id) ==
    [id |-> thread_id,
     messages |->
        CASE thread_id % 3 = 1 ->
               <<RawMessage("m1", "t1", RawNode(ShapeEmpty, <<ShapePlain, ShapeEmpty>>))>>
          [] thread_id % 3 = 2 ->
               <<RawMessage("m2", "t2", ShapePlain),
                 RawMessage("m3", "t2", RawNode(ShapeEmpty, <<ShapeAttachment, ShapeUndecodable>>))>>
          [] OTHER ->
               <<RawMessage(None, "t3", ShapeUndecodable)>>]

\* --------------------------------------------------------- list service
\* One list response: {} (falsy), or a dict with resultSizeEstimate, with
\* "threads" when the page has summaries and "nextPageToken" when a further
\* page exists.
ListResponse(chunk, more, falsy) ==
    IF falsy THEN <<>>
    ELSE (IF chunk = <<>> THEN <<>> ELSE [threads |-> [i \in 1..Len(chunk) |-> [id |-> chunk[i]]]])
         @@ (IF more THEN [nextPageToken |-> "next"] ELSE <<>>)
         @@ [resultSizeEstimate |-> Len(chunk)]

RECURSIVE Splits(_, _)
Splits(seq, p) ==
    IF p = 1 THEN {<<seq>>}
    ELSE UNION {{<<SubSeq(seq, 1, k)>> \o rest : rest \in Splits(SubSeq(seq, k + 1, Len(seq)), p - 1)}
                : k \in 0..Len(seq)}

PagesOf(chunks, falsy) ==
    [i \in 1..Len(chunks) |->
        ListResponse(chunks[i], i < Len(chunks), falsy /\ i = Len(chunks))]

Listings ==
    UNION {UNION {{PagesOf(chunks, falsy) :
                      falsy \in (IF chunks[Len(chunks)] = <<>> THEN BOOLEAN ELSE {FALSE})}
                  : chunks \in Splits([i \in 1..n |-> i], p)}
           : n \in 0..MaxThreads, p \in 1..MaxPages}

ListedIds(page_seq) ==
    Concat([i \in 1..Len(page_seq) |->
        LET ts == get_field(page_seq[i], "threads", <<>>)
        IN  [j \in 1..Len(ts) |-> ts[j].id]])

\* list_next(previous_request, previous_response): a request for the next
\* page when the response carries a continuation token, None otherwise.
list_next_ignoring_token(request, resp) == request

list_next_stops(request, resp) == NoRef

list_next_restarting(request, resp) ==
    IF Truthy(get_field(resp, "nextPageToken", None)) THEN 1 ELSE NoRef

list_next(request, resp) ==
    IF Truthy(get_field(resp, "nextPageToken", None)) THEN request + 1 ELSE NoRef

\* ----------------------------------------------- fetch-context oracle
get_thread_ids_to_query_from_api(thread_ids, known_ids) == SelectNotIn(thread_ids, known_ids)

process_thread(known_ids, thread_obj) == known_ids \cup {thread_obj.id}

\* ================================================================ state
VARIABLES
    pages,               \* the list service: the responses of the successive list pages
    known,               \* thread ids the fetch context already holds
    CONVERSION_CONTEXT,  \* the module global: a context id, NoRef for None
    heap,                \* the ApiConversionContext objects, by id
    calls,               \* calls of query_threads_with_paging started so far
    frame,               \* per caller: the locals of its query_threads_with_paging call
    hist                 \* per caller: what its current call has done (observation only)

vars == <<pages, known, CONVERSION_CONTEXT, heap, calls, frame, hist>>

IdleFrame ==
    [pc |-> "idle", limit |-> NoLimit, ctx |-> NoRef, kwargs |-> <<>>, request |-> NoRef,
     response |-> <<>>, thread_ids_to_query |-> <<>>, idx |-> 0, threads |-> <<>>,
     thread_response |-> <<>>, messages |-> <<>>, descriptor_idx |-> 1]

EmptyHist ==
    [list_requests |-> <<>>, listed |-> <<>>, accepted |-> <<>>, excluded |-> {},
     fetched |-> <<>>, parsed |-> <<>>, notified |-> <<>>, recorded |-> <<>>,
     handler_calls |-> <<>>, attachment_requests |-> <<>>]

\* Context objects no reference reaches are reclaimed: their slot is blank.
BlankContext == NewContext(NoLimit)

Collect(h, refs) == [c \in CtxIds |-> IF c \in refs THEN h[c] ELSE BlankContext]

Init ==
    /\ pages \in Listings
    /\ known \in SUBSET ThreadIds
    /\ CONVERSION_CONTEXT = NoRef
    /\ heap = [c \in CtxIds |-> BlankContext]
    /\ calls = 0
    /\ frame = [s \in Callers |-> IdleFrame]
    /\ hist = [s \in Callers |-> EmptyHist]

\* _get_new_kwargs plus the optional maxResults of the first list request.
ListKwargs(limit) ==
    (IF limit /= NoLimit /\ limit /= 0 /\ limit < DEFAULT_PAGE_SIZE
        THEN [maxResults |-> limit] ELSE <<>>) @@ [userId |-> "me"]

\* Thread(thread_id, subject, messages)
Thread(thread_id, subject, messages) ==
    [id |-> thread_id, subject |-> subject, messages |-> messages]

GmailThreadsAdd_keeping_last(threads, thread_obj) == <<thread_obj>>

\* GmailThreads.add
GmailThreadsAdd(threads, thread_obj) == Append(threads, thread_obj)

\* `for idx, thread_id in enumerate(thread_ids_to_query)`: the id of the
\* running loop iteration.
CurrentThreadId_from_listing(f) == get_field(f.response, "threads", <<>>)[f.idx].id

CurrentThreadId(f) == f.thread_ids_to_query[f.idx]

\* ------------------------------------------------------------- actions
\* line 122: a new context replaces the module global.
Call(s) ==
    /\ frame[s].pc \in {"idle", "returned"}
    /\ calls < MaxCalls
    /\ \E limit \in Limits :
        LET others == {frame[t].ctx : t \in Callers \ {s}} \ {NoRef}
            inuse  == others \cup ({CONVERSION_CONTEXT} \ {NoRef})
            new    == CHOOSE c \in CtxIds \ inuse : \A d \in CtxIds \ inuse : c <= d
        IN  /\ CONVERSION_CONTEXT' = new
            /\ heap' = Collect([heap EXCEPT ![new] = NewContext(limit)], others \cup {new})
            /\ frame' = [frame EXCEPT ![s] = [IdleFrame EXCEPT !.pc = "bind", !.limit = limit]]
    /\ hist' = [hist EXCEPT ![s] = EmptyHist]
    /\ calls' = calls + 1
    /\ UNCHANGED <<pages, known>>

\* lines 123-131: ctx is read back from the module global; the first list
\* request is built.
Bind(s) ==
    /\ frame[s].pc = "bind"
    /\ frame' = [frame EXCEPT ![s].ctx = CONVERSION_CONTEXT,
                              ![s].kwargs = ListKwargs(frame[s].limit),
                              ![s].request = 1,
                              ![s].threads = <<>>,
                              ![s].pc = "list"]
    /\ UNCHANGED <<pages, known, CONVERSION_CONTEXT, heap, calls, hist>>

\* lines 132-145: one list request is executed; a truthy response is
\* counted and its thread ids are handed to the fetch context.  (The request
\* counter is capped at MaxRequests, above any count a listing of MaxPages
\* pages produces.)
ExecuteList(s) ==
    /\ frame[s].pc = "list"
    /\ heap[frame[s].ctx].progress.requests_count < MaxRequests
    /\ LET f        == frame[s]
           resp     == pages[f.request]
           list_of_threads == get_field(resp, "threads", <<>>)
           thread_ids == [i \in 1..Len(list_of_threads) |-> get_field(list_of_threads[i], "id", None)]
           to_query == get_thread_ids_to_query_from_api(thread_ids, known)
       IN  IF DOMAIN resp /= {}
           THEN /\ heap' = [heap EXCEPT ![f.ctx].progress =
                                register_new_items(incr_requests(@), Len(list_of_threads))]
                /\ frame' = [frame EXCEPT ![s].response = resp,
                                          ![s].thread_ids_to_query = to_query,
                                          ![s].idx = 1,
                                          ![s].pc = "thread"]
                /\ hist' = [hist EXCEPT ![s].list_requests = Append(@, f.request),
                                        ![s].listed = @ \o thread_ids,
                                        ![s].accepted = @ \o to_query,
                                        ![s].excluded = @ \cup (Range(thread_ids) \ Range(to_query))]
           ELSE /\ heap' = heap
                /\ frame' = [frame EXCEPT ![s].response = resp, ![s].pc = "next"]
                /\ hist' = [hist EXCEPT ![s].list_requests = Append(@, f.request)]
    /\ UNCHANGED <<pages, known, CONVERSION_CONTEXT, calls>>

\* lines 147-152: the head of one loop iteration; the processed counter is
\* incremented, then the limit is checked and may end the call.
LimitCheck(s) ==
    /\ frame[s].pc = "thread"
    /\ frame[s].idx <= Len(frame[s].thread_ids_to_query)
    /\ LET progress == incr_processed_items(heap[frame[s].ctx].progress)
       IN  /\ heap' = [heap EXCEPT ![frame[s].ctx].progress = progress]
           /\ frame' = [frame EXCEPT ![s].pc =
                            IF is_limit_reached(progress) THEN "returned" ELSE "fetch"]
    /\ UNCHANGED <<pages, known, CONVERSION_CONTEXT, calls, hist>>

\* lines 154-155: threads.get for the current id.
FetchThread(s) ==
    /\ frame[s].pc = "fetch"
    /\ LET thread_id == CurrentThreadId(frame[s])
       IN  /\ frame' = [frame EXCEPT ![s].thread_response = ThreadDetail(thread_id),
                                     ![s].pc = "parse"]
           /\ hist' = [hist EXCEPT ![s].fetched = Append(@, thread_id)]
    /\ UNCHANGED <<pages, known, CONVERSION_CONTEXT, heap, calls>>

\* line 156: every message of the thread is parsed; the constructed
\* messages report their anomalies into the module-global context.
ParseMessages(s) ==
    /\ frame[s].pc = "parse"
    /\ LET messages_response == get_field(frame[s].thread_response, "messages", None)
           before == heap[CONVERSION_CONTEXT]
       IN  \E messages \in {[i \in 1..Len(messages_response) |->
                                parse_api_message(messages_response[i])]} :
           \E after \in {ReportMessages(before, messages)} :
             /\ heap' = [heap EXCEPT ![CONVERSION_CONTEXT] = after]
             /\ frame' = [frame EXCEPT ![s].messages = messages, ![s].pc = "drain"]
             /\ hist' = [hist EXCEPT
                           ![s].parsed = Append(@, get_field(frame[s].thread_response, "id", None)),
                           ![s].recorded = @ \o SubSeq(after.empty_bodies,
                                                       Len(before.empty_bodies) + 1,
                                                       Len(after.empty_bodies))]
    /\ UNCHANGED <<pages, known, CONVERSION_CONTEXT, calls>>

\* line 157: the empty-body buffer is drained through
\* _query_attachment_of_descriptor.  One step runs the loop up to the next
\* attachments.get request, whose answer the call waits for, or, when no
\* request is left, to the end of the loop and the clearing of the buffer.
DrainEmptyBodies(s) ==
    /\ frame[s].pc = "drain"
    /\ LET drained == handle_empty_bodies(heap[frame[s].ctx], frame[s].descriptor_idx)
       IN  /\ heap' = [heap EXCEPT ![frame[s].ctx] = drained.ctx]
           /\ hist' = [hist EXCEPT
                         ![s].handler_calls = @ \o drained.calls,
                         ![s].attachment_requests = @ \o drained.requests]
           /\ frame' = [frame EXCEPT ![s].descriptor_idx = drained.next,
                                     ![s].pc = IF drained.done THEN "add" ELSE "drain"]
    /\ UNCHANGED <<pages, known, CONVERSION_CONTEXT, calls>>

\* lines 158-162: the Thread is built and added; _sanity_check does nothing.
AddThread(s) ==
    /\ frame[s].pc = "add"
    /\ LET f          == frame[s]
           thread_id  == CurrentThreadId(f)
           thread_obj == Thread(thread_id, f.messages[1].subject, f.messages)
       IN  frame' = [frame EXCEPT ![s].threads = GmailThreadsAdd(@, thread_obj),
                                  ![s].pc = "notify"]
    /\ UNCHANGED <<pages, known, CONVERSION_CONTEXT, heap, calls, hist>>

\* line 163: the fetch context is told about the processed thread; the
\* loop moves to the next id.
NotifyOracle(s) ==
    /\ frame[s].pc = "notify"
    /\ LET thread_obj == frame[s].threads[Len(frame[s].threads)]
       IN  /\ known' = process_thread(known, thread_obj)
           /\ hist' = [hist EXCEPT ![s].notified = Append(@, thread_obj.id)]
    /\ frame' = [frame EXCEPT ![s].idx = @ + 1, ![s].pc = "thread"]
    /\ UNCHANGED <<pages, CONVERSION_CONTEXT, heap, calls>>

\* line 164, then the loop test of line 132.
ListNext(s) ==
    /\ \/ frame[s].pc = "next"
       \/ /\ frame[s].pc = "thread"
          /\ frame[s].idx > Len(frame[s].thread_ids_to_query)
    /\ LET request == list_next(frame[s].request, frame[s].response)
       IN  frame' = [frame EXCEPT ![s].request = request,
                                  ![s].pc = IF request /= NoRef THEN "list" ELSE "finalize"]
    /\ UNCHANGED <<pages, known, CONVERSION_CONTEXT, heap, calls, hist>>

\* lines 167-168: the decode errors are dropped and the threads returned.
Finalize(s) ==
    /\ frame[s].pc = "finalize"
    /\ heap' = [heap EXCEPT ![frame[s].ctx] = handle_encoding_errors(@)]
    /\ frame' = [frame EXCEPT ![s].pc = "returned"]
    /\ UNCHANGED <<pages, known, CONVERSION_CONTEXT, calls, hist>>

Step(s) ==
    \/ Call(s)
    \/ Bind(s)
    \/ ExecuteList(s)
    \/ LimitCheck(s)
    \/ FetchThread(s)
    \/ ParseMessages(s)
    \/ DrainEmptyBodies(s)
    \/ AddThread(s)
    \/ NotifyOracle(s)
    \/ ListNext(s)
    \/ Finalize(s)

\* One caller: the calls of a single-threaded program follow one another.
Next == Step(1)

Spec == Init /\ [][Next]_vars

\* The same program; the steps of a running call are eventually taken.
FairSpec == Spec /\ WF_vars(Next)

\* Several callers whose calls interleave at every step.
ConcInit ==
    /\ Init
    /\ Len(ListedIds(pages)) <= ConcMaxThreads
    /\ Len(pages) = 1
    /\ known = {}

ConcNext == \E s \in Callers : Step(s)

ConcSpec == ConcInit /\ [][ConcNext]_vars

\* The parser on every bounded raw message: a call that has just fetched
\* a thread whose single message is the raw message.
ParseInit ==
    /\ pages = <<ListResponse(<<1>>, FALSE, FALSE)>>
    /\ known = {}
    /\ CONVERSION_CONTEXT = 1
    /\ heap = [c \in CtxIds |->
                 IF c = 1
                 THEN [NewContext(NoLimit) EXCEPT
                         !.progress = incr_processed_items(register_new_items(incr_requests(@), 1))]
                 ELSE BlankContext]
    /\ calls = 1
    /\ \E m \in RawMessages :
         frame = [s \in Callers |->
                    IF s = 1
                    THEN [IdleFrame EXCEPT !.pc = "parse", !.ctx = 1,
                                           !.kwargs = ListKwargs(NoLimit), !.request = 1,
                                           !.response = pages[1],
                                           !.thread_ids_to_query = <<1>>, !.idx = 1,
                                           !.thread_response = [id |-> 1, messages |-> <<m>>]]
                    ELSE IdleFrame]
    /\ hist = [s \in Callers |->
                 IF s = 1
                 THEN [EmptyHist EXCEPT !.list_requests = <<1>>, !.listed = <<1>>,
                                        !.accepted = <<1>>, !.fetched = <<1>>]
                 ELSE EmptyHist]

ParseNext ==
    \/ ParseMessages(1)
    \/ DrainEmptyBodies(1)
    \/ AddThread(1)

ParseSpec == ParseInit /\ [][ParseNext]_vars

\* The drain after a thread of single-part messages whose message id and
\* attachment id are each present, empty or missing: the call has just
\* parsed the messages, which reported their empty bodies into the context.
DescriptorRawMessage(message_id, attachment_id) ==
    RawMessage(message_id, "t",
        [partId |-> "0", mimeType |-> "application/pdf", headers |-> <<>>,
         body |-> (IF attachment_id = None THEN <<>> ELSE [attachmentId |-> attachment_id])
                  @@ [size |-> 5]])

DescriptorRawMessages ==
    {DescriptorRawMessage(m, a) : m \in {"m1", "", None}, a \in {"att", "", None}}

DescriptorOf(message) ==
    MessagePartDescriptor(message, message.payload,
        [body |-> message.payload.body.data, mime_type |-> message.payload.mimeType])

RawMessageSeqs ==
    UNION {[1..n -> DescriptorRawMessages] : n \in 0..MaxDescriptors}

DrainInit ==
    /\ pages = <<ListResponse(<<1>>, FALSE, FALSE)>>
    /\ known = {}
    /\ CONVERSION_CONTEXT = 1
    /\ calls = 1
    /\ \E raws \in RawMessageSeqs :
         LET messages_response == <<RawMessage("m0", "t", ShapePlain)>> \o raws
             messages == [i \in 1..Len(messages_response) |->
                             parse_api_message(messages_response[i])]
             before   == [NewContext(NoLimit) EXCEPT
                             !.progress = incr_processed_items(
                                            register_new_items(incr_requests(@), 1))]
             after    == ReportMessages(before, messages)
             buffer   == after.empty_bodies
         IN  /\ heap = [c \in CtxIds |-> IF c = 1 THEN after ELSE BlankContext]
             /\ frame = [s \in Callers |->
                           IF s = 1
                           THEN [IdleFrame EXCEPT
                                   !.pc = "drain", !.ctx = 1,
                                   !.kwargs = ListKwargs(NoLimit), !.request = 1,
                                   !.response = pages[1],
                                   !.thread_ids_to_query = <<1>>, !.idx = 1,
                                   !.thread_response = [id |-> 1, messages |-> messages_response],
                                   !.messages = messages]
                           ELSE IdleFrame]
             /\ hist = [s \in Callers |->
                          IF s = 1
                          THEN [EmptyHist EXCEPT !.list_requests = <<1>>, !.listed = <<1>>,
                                                 !.accepted = <<1>>, !.fetched = <<1>>,
                                                 !.parsed = <<1>>, !.recorded = buffer]
                          ELSE EmptyHist]

DrainNext ==
    \/ DrainEmptyBodies(1)
    \/ AddThread(1)
    \/ NotifyOracle(1)

DrainSpec == DrainInit /\ [][DrainNext]_vars

\* ============================================================ properties
Min(a, b) == IF a <= b THEN a ELSE b

ThreadIdsOf(threads) == [i \in 1..Len(threads) |-> threads[i].id]

\* The call of caller s returned from inside the loop, at the limit check.
LimitTerminated(s) ==
    /\ frame[s].pc = "returned"
    /\ frame[s].request /= NoRef
    /\ frame[s].idx <= Len(frame[s].thread_ids_to_query)

\* The call of caller s returned after the last page.
PagesExhausted(s) == frame[s].pc = "returned" /\ frame[s].request = NoRef

\* The context object the call of caller s works on.
CtxOf(s) == heap[frame[s].ctx]

\* C1: a call with limit L >= 0 whose pages hold N accepted ids returns the
\* first min(L, N) accepted threads, and fetches no thread beyond them.
C1_ReturnsFirstMinLN ==
    (frame[1].pc = "returned" /\ frame[1].limit /= NoLimit) =>
        LET n == Min(frame[1].limit, Len(hist[1].accepted))
        IN  /\ ThreadIdsOf(frame[1].threads) = SubSeq(hist[1].accepted, 1, n)
            /\ hist[1].fetched = SubSeq(hist[1].accepted, 1, n)

\* C2: when the limit check ends a call with limit L, processed_items is L,
\* the number of threads returned.
C2_ProcessedEqualsLimitAtStop ==
    LimitTerminated(1) =>
        /\ CtxOf(1).progress.processed_items = frame[1].limit
        /\ CtxOf(1).progress.processed_items = Len(frame[1].threads)

\* C3: without a limit and with a fetch context that accepted every listed
\* id, the returned call has fetched each listed id once, in listing order,
\* and returns one Thread per listed id in that order.
C3_EveryListedIdOnce ==
    (/\ frame[1].pc = "returned"
     /\ frame[1].limit = NoLimit
     /\ hist[1].accepted = hist[1].listed) =>
        /\ hist[1].fetched = ListedIds(pages)
        /\ ThreadIdsOf(frame[1].threads) = ListedIds(pages)
        /\ Cardinality(Range(hist[1].fetched)) = Len(hist[1].fetched)

C3_Witness ==
    /\ frame[1].pc = "returned"
    /\ frame[1].limit = NoLimit
    /\ hist[1].accepted = hist[1].listed
    /\ Len(hist[1].list_requests) = 2
    /\ Len(frame[1].threads) = 3

\* C4: a started call eventually returns, and once list_next has yielded no
\* request the call executes no further list request.
C4_CallReturns ==
    /\ (frame[1].pc = "bind") ~> (frame[1].pc = "returned")
    /\ [][(frame[1].pc = "finalize") => (hist'[1].list_requests = hist[1].list_requests
                                          /\ frame'[1].pc = "returned")]_vars

C4_Witness ==
    /\ PagesExhausted(1)
    /\ Len(hist[1].list_requests) = Len(pages)
    /\ Len(pages) = 2
    /\ frame[1].threads /= <<>>

\* C5: an id the fetch context left out is never fetched, parsed, returned
\* or reported back in that call; the ids it returned are fetched in order,
\* all of them unless the limit check ended the call.
C5_OnlyAcceptedIdsFetched ==
    /\ hist[1].excluded \cap Range(hist[1].fetched) = {}
    /\ hist[1].excluded \cap Range(hist[1].parsed) = {}
    /\ hist[1].excluded \cap Range(ThreadIdsOf(frame[1].threads)) = {}
    /\ hist[1].excluded \cap Range(hist[1].notified) = {}
    /\ Len(hist[1].fetched) <= Len(hist[1].accepted)
    /\ hist[1].fetched = SubSeq(hist[1].accepted, 1, Len(hist[1].fetched))
    /\ PagesExhausted(1) => hist[1].fetched = hist[1].accepted

C5_Witness ==
    /\ PagesExhausted(1)
    /\ hist[1].excluded /= {}
    /\ Len(hist[1].fetched) >= 2
    /\ \E i \in hist[1].excluded : \E j \in Range(hist[1].fetched) : i < j

\* C6: two calls that are running at the same time never work on the same
\* context object.
C6_ContextsDisjoint ==
    \A s, t \in Callers :
        (/\ s /= t
         /\ frame[s].pc \notin {"idle", "bind", "returned"}
         /\ frame[t].pc \notin {"idle", "bind", "returned"}) =>
            frame[s].ctx /= frame[t].ctx

\* The raw parts of a payload in pre-order, and the raw bodies that have
\* neither inline data nor an attachment id.
RECURSIVE RawAllParts(_)
RawAllParts(raw) ==
    <<raw>> \o (IF "parts" \in DOMAIN raw
                THEN Concat([i \in 1..Len(raw.parts) |-> RawAllParts(raw.parts[i])])
                ELSE <<>>)

RawBodyEmpty(raw) == "data" \notin DOMAIN raw.body /\ "attachmentId" \notin DOMAIN raw.body

RECURSIVE SelectRawEmpty(_)
SelectRawEmpty(raws) ==
    IF raws = <<>> THEN <<>>
    ELSE (IF RawBodyEmpty(Head(raws)) THEN <<Head(raws)>> ELSE <<>>) \o SelectRawEmpty(Tail(raws))

RawMessageOf(s) == frame[s].thread_response.messages[1]

\* C7: after a raw message is parsed, the empty-body buffer holds exactly
\* one descriptor for each of its parts that has neither data nor attachment
\* id, in tree order, each naming the message and the part; the Message is
\* built and every part of the tree is parsed.
C7_EmptyBodiesRecordedOnce ==
    frame[1].pc = "drain" =>
        LET raw     == RawMessageOf(1)
            raws    == RawAllParts(raw.payload)
            empties == SelectRawEmpty(raws)
            buffer  == CtxOf(1).empty_bodies
        IN  /\ Len(frame[1].messages) = 1
            /\ Len(AllParts(frame[1].messages[1].payload)) = Len(raws)
            /\ Len(buffer) = Len(empties)
            /\ \A i \in 1..Len(buffer) :
                 /\ buffer[i].message = frame[1].messages[1]
                 /\ buffer[i].message_part.id = empties[i].partId
                 /\ buffer[i].message_part.mimeType = empties[i].mimeType
                 /\ buffer[i].message_part.body.size = empties[i].body.size

C7_Witness ==
    /\ frame[1].pc = "drain"
    /\ Len(CtxOf(1).empty_bodies) = 2
    /\ Len(AllParts(frame[1].messages[1].payload)) = 3
    /\ ~IsEmptyBody(frame[1].messages[1].payload.body)

\* Depth of a raw part tree and of a parsed MessagePart tree.
Max(a, b) == IF a >= b THEN a ELSE b

RECURSIVE MaxOver(_)
MaxOver(ns) == IF ns = <<>> THEN 0 ELSE Max(Head(ns), MaxOver(Tail(ns)))

RECURSIVE RawDepth(_)
RawDepth(raw) ==
    1 + (IF "parts" \in DOMAIN raw
         THEN MaxOver([i \in 1..Len(raw.parts) |-> RawDepth(raw.parts[i])])
         ELSE 0)

RECURSIVE PartDepth(_)
PartDepth(part) == 1 + MaxOver([i \in 1..Len(part.parts) |-> PartDepth(part.parts[i])])

OptionalField(raw, key, parsed_value) ==
    IF key \in DOMAIN raw THEN parsed_value = raw[key] ELSE parsed_value = None

RECURSIVE SameTree(_, _)
SameTree(raw, part) ==
    LET children == IF "parts" \in DOMAIN raw THEN raw.parts ELSE <<>>
    IN  /\ part.id = raw.partId
        /\ part.mimeType = raw.mimeType
        /\ Len(part.headers) = Len(raw.headers)
        /\ \A i \in 1..Len(raw.headers) :
             /\ part.headers[i].name = raw.headers[i].name
             /\ part.headers[i].value = raw.headers[i].value
        /\ OptionalField(raw.body, "data", part.body.data)
        /\ part.body.size = raw.body.size
        /\ OptionalField(raw.body, "attachmentId", part.body.attachmentId)
        /\ Len(part.parts) = Len(children)
        /\ \A i \in 1..Len(children) : SameTree(children[i], part.parts[i])

\* C8: the MessagePart tree parse_message_part returns has the depth of the
\* raw tree, the same number and order of children at every node, and at
\* every node the raw part id, MIME type, headers and body fields.
C8_ParsedTreeMatchesRaw ==
    frame[1].pc \in {"drain", "add", "notify"} =>
        LET raw  == RawMessageOf(1).payload
            part == frame[1].messages[1].payload
        IN  /\ PartDepth(part) = RawDepth(raw)
            /\ SameTree(raw, part)

C8_Witness ==
    /\ frame[1].pc = "drain"
    /\ Len(frame[1].messages[1].payload.parts) = 2
    /\ frame[1].messages[1].payload.parts[1].body.attachmentId = "att"
    /\ frame[1].messages[1].payload.parts[2].body.data = "aGk"
    /\ Len(frame[1].messages[1].payload.headers) = 2

\* C9: is_limit_reached is true exactly when a limit was configured and
\* processed_items is strictly greater than it.
C9_LimitReachedIffExceeded ==
    frame[1].pc \notin {"idle", "bind"} =>
        LET p == CtxOf(1).progress
        IN  is_limit_reached(p) <=> (p.limit /= NoLimit /\ p.processed_items > p.limit)

\* C10: over a call, the handler has been called once on every recorded
\* empty-body descriptor that is no longer buffered, in recording order, and
\* after a drain the buffer is empty.
C10_DrainCallsEachOnceInOrder ==
    frame[1].pc \notin {"idle", "bind"} =>
        /\ hist[1].handler_calls \o
              SubSeq(CtxOf(1).empty_bodies, frame[1].descriptor_idx,
                     Len(CtxOf(1).empty_bodies)) = hist[1].recorded
        /\ frame[1].pc = "add" => CtxOf(1).empty_bodies = <<>>

C10_Witness ==
    /\ frame[1].pc = "add"
    /\ Len(hist[1].handler_calls) = 3
    /\ Len(hist[1].parsed) = 2
    /\ hist[1].handler_calls[1] /= hist[1].handler_calls[2]

\* The attachment requests due for a sequence of descriptors: one, in order,
\* for each descriptor whose message id and attachment id are both non-empty.
NonEmptyId(v) == v \notin {None, ""}

RECURSIVE DueRequests(_)
DueRequests(descriptors) ==
    IF descriptors = <<>> THEN <<>>
    ELSE LET d == Head(descriptors)
         IN  (IF NonEmptyId(d.message.id) /\ NonEmptyId(d.message_part.body.attachmentId)
              THEN <<[userId |-> "me", messageId |-> d.message.id,
                      id |-> d.message_part.body.attachmentId]>>
              ELSE <<>>) \o DueRequests(Tail(descriptors))

\* C11: a descriptor with a missing or empty message id or attachment id
\* causes no attachment request and does not stop the drain or the call:
\* every buffered descriptor is handled, the requests issued are exactly
\* those of the descriptors with both ids non-empty, and the thread is
\* built and added.  On every descriptor of a single-part message the
\* handler issues a request exactly when both ids are non-empty.
C11_MalformedDescriptorSkipped ==
    /\ frame[1].pc \in {"add", "notify", "thread"} =>
          /\ hist[1].handler_calls = hist[1].recorded
          /\ hist[1].attachment_requests = DueRequests(hist[1].recorded)
          /\ CtxOf(1).empty_bodies = <<>>
    /\ frame[1].pc \in {"notify", "thread"} =>
          /\ Len(frame[1].threads) = 1
          /\ frame[1].threads[1].id = 1
          /\ Len(frame[1].threads[1].messages) =
                Len(frame[1].thread_response.messages)
    /\ \A raw \in DescriptorRawMessages :
          LET descriptor == DescriptorOf(parse_api_message(raw))
          IN  /\ query_attachment_of_descriptor(descriptor) = DueRequests(<<descriptor>>)
              /\ query_attachment_of_descriptor(descriptor) /= <<>> <=>
                    /\ NonEmptyId(descriptor.message.id)
                    /\ NonEmptyId(descriptor.message_part.body.attachmentId)

C11_Witness ==
    /\ frame[1].pc = "notify"
    /\ Len(hist[1].handler_calls) = 2
    /\ ~NonEmptyId(hist[1].handler_calls[1].message.id)
    /\ NonEmptyId(hist[1].handler_calls[2].message.id)
    /\ ~NonEmptyId(hist[1].handler_calls[2].message_part.body.attachmentId)
    /\ hist[1].attachment_requests = <<>>
    /\ CtxOf(1).empty_bodies = <<>>
    /\ Len(frame[1].threads) = 1
    /\ Len(frame[1].threads[1].messages) = 3

\* The limit check is about to fire: the loop head is reached with a limit
\* set and as many threads already counted as the limit allows.
LimitCheckFires(s) ==
    /\ frame[s].pc = "thread"
    /\ frame[s].idx <= Len(frame[s].thread_ids_to_query)
    /\ frame[s].limit \notin {NoLimit, 0}
    /\ CtxOf(s).progress.processed_items + 1 > frame[s].limit

\* C12: the step on which the limit check fires returns the call at once
\* with the threads assembled so far; neither that step nor any later step
\* of the returned call issues a list, thread or attachment request,
\* notifies the fetch context or changes the returned threads.
C12_NothingAfterLimitStop ==
    [][/\ LimitCheckFires(1) =>
            /\ frame'[1].pc = "returned"
            /\ frame'[1].threads = frame[1].threads
            /\ hist' = hist
            /\ known' = known
       /\ (LimitTerminated(1) /\ frame'[1].pc = "returned") =>
            /\ frame'[1].threads = frame[1].threads
            /\ hist' = hist
            /\ known' = known]_vars

C12_Witness ==
    /\ LimitTerminated(1)
    /\ Len(frame[1].threads) = 1
    /\ Len(hist[1].accepted) >= 2
    /\ hist[1].fetched = <<frame[1].threads[1].id>>
    /\ hist[1].notified = hist[1].fetched

\* The steps a loop iteration may take from each position.
IterationOrder ==
    /\ frame[1].pc = "thread" /\ frame[1].idx <= Len(frame[1].thread_ids_to_query) =>
          /\ frame'[1].pc \in {"fetch", "returned"}
          /\ CtxOf(1)'.progress.processed_items = CtxOf(1).progress.processed_items + 1
    /\ frame[1].pc = "fetch" =>
          /\ frame'[1].pc = "parse"
          /\ hist'[1].fetched = Append(hist[1].fetched, CurrentThreadId(frame[1]))
    /\ frame[1].pc = "parse" =>
          /\ frame'[1].pc = "drain"
          /\ Len(frame'[1].messages) = Len(frame[1].thread_response.messages)
    /\ frame[1].pc = "drain" =>
          /\ frame'[1].pc \in {"drain", "add"}
          /\ frame'[1].pc = "add" => CtxOf(1)'.empty_bodies = <<>>
          /\ frame'[1].threads = frame[1].threads
    /\ frame[1].pc = "add" =>
          /\ frame'[1].pc = "notify"
          /\ ThreadIdsOf(frame'[1].threads) =
                Append(ThreadIdsOf(frame[1].threads), CurrentThreadId(frame[1]))
          /\ hist' = hist
          /\ known' = known
    /\ frame[1].pc = "notify" =>
          /\ frame'[1].pc = "thread"
          /\ hist'[1].notified = Append(hist[1].notified, CurrentThreadId(frame[1]))
          /\ frame'[1].threads = frame[1].threads

\* C13: a loop iteration runs limit check, threads.get, parse of every
\* message, drain of the empty-body buffer, append of the Thread, then the
\* notification of the fetch context; the notified ids are at all times the
\* output ids, each once, except that the thread just appended is notified
\* on the next step.
C13_IterationOrderAndNotification ==
    /\ [](/\ Cardinality(Range(hist[1].notified)) = Len(hist[1].notified)
          /\ IF frame[1].pc = "notify"
             THEN ThreadIdsOf(frame[1].threads) =
                     Append(hist[1].notified, CurrentThreadId(frame[1]))
             ELSE ThreadIdsOf(frame[1].threads) = hist[1].notified
          /\ frame[1].pc \in {"parse", "drain", "add"} =>
                hist[1].fetched = Append(hist[1].notified, CurrentThreadId(frame[1]))
          /\ frame[1].pc \in {"drain", "add"} => hist[1].parsed = hist[1].fetched)
    /\ [][IterationOrder]_vars

C13_Witness ==
    /\ frame[1].pc = "thread"
    /\ Len(hist[1].notified) = 2
    /\ ThreadIdsOf(frame[1].threads) = hist[1].notified
    /\ Len(frame[1].thread_ids_to_query) < Len(hist[1].listed)

\* s is a prefix of t.
IsPrefix(s, t) == Len(s) <= Len(t) /\ s = SubSeq(t, 1, Len(s))

\* C14: the list pages are requested in order, each request after the first
\* following a page that carried a continuation token; the ids fetched are
\* at all times a prefix of the accepted ids in page order, and when a list
\* request is about to be executed every id accepted from the earlier pages
\* has been fetched, assembled into the output and reported to the fetch
\* context.
C14_PagesInOrder ==
    /\ hist[1].list_requests = [k \in 1..Len(hist[1].list_requests) |-> k]
    /\ \A k \in 2..Len(hist[1].list_requests) :
          Truthy(get_field(pages[k - 1], "nextPageToken", None))
    /\ hist[1].listed = ListedIds(SubSeq(pages, 1, Len(hist[1].list_requests)))
    /\ IsPrefix(hist[1].fetched, hist[1].accepted)
    /\ IsPrefix(hist[1].notified, hist[1].fetched)
    /\ frame[1].pc = "list" =>
          /\ frame[1].request = Len(hist[1].list_requests) + 1
          /\ hist[1].fetched = hist[1].accepted
          /\ hist[1].notified = hist[1].accepted
          /\ ThreadIdsOf(frame[1].threads) = hist[1].accepted

C14_Witness ==
    /\ frame[1].pc = "list"
    /\ frame[1].request = 2
    /\ Len(hist[1].accepted) >= 2
    /\ hist[1].notified = hist[1].accepted
    /\ Len(get_field(pages[2], "threads", <<>>)) >= 1

\* C15: while a call runs, requests_count is the number of list responses
\* received, all_items_count the number of thread summaries they carried,
\* and the last batch size the number carried by the latest response.
C15_EveryListResponseCounted ==
    frame[1].pc \notin {"idle", "bind"} =>
        LET received == hist[1].list_requests
            progress == CtxOf(1).progress
        IN  /\ progress.requests_count = Len(received)
            /\ progress.all_items_count = Len(hist[1].listed)
            /\ received /= <<>> =>
                  progress.new_items_with_last_request =
                     Len(get_field(pages[received[Len(received)]], "threads", <<>>))

\* C16: whenever a call has returned, by the end of the pages or by the
\* limit, the decode-error buffer of its context is empty.
C16_DecodeErrorsDrainedOnReturn ==
    frame[1].pc = "returned" => CtxOf(1).decode_errors = <<>>

\* C17: while a call runs and after it returned, the output holds at most
\* processed_items threads and processed_items is at most all_items_count;
\* the output is one thread short of processed_items exactly while the
\* counted thread is being fetched and assembled or after the limit ended
\* the call, and equal to it otherwise.
C17_CounterOrdering ==
    frame[1].pc \notin {"idle", "bind"} =>
        LET output   == Len(frame[1].threads)
            progress == CtxOf(1).progress
        IN  /\ output <= progress.processed_items
            /\ progress.processed_items <= progress.all_items_count
            /\ output \in {progress.processed_items, progress.processed_items - 1}
            /\ output = progress.processed_items - 1 <=>
                  \/ frame[1].pc \in {"fetch", "parse", "drain", "add"}
                  \/ LimitTerminated(1)

C17_Witness ==
    /\ frame[1].pc = "parse"
    /\ Len(frame[1].threads) = 1
    /\ CtxOf(1).progress.processed_items = 2
    /\ CtxOf(1).progress.all_items_count = 3
    /\ Len(hist[1].accepted) = 2

\* C18: a call that follows a returned call runs on a context of its own:
\* when its first list request is about to be executed all three counters
\* are 0 and both anomaly buffers are empty, and from then on
\* processed_items counts the loop heads of this call alone.
C18_FreshContextPerCall ==
    calls >= 2 /\ frame[1].pc \notin {"idle", "bind"} =>
        LET ctx == CtxOf(1)
        IN  /\ ctx.progress.limit = frame[1].limit
            /\ (frame[1].pc = "list" /\ hist[1].list_requests = <<>>) =>
                  /\ ctx.progress.requests_count = 0
                  /\ ctx.progress.all_items_count = 0
                  /\ ctx.progress.processed_items = 0
                  /\ ctx.decode_errors = <<>>
                  /\ ctx.empty_bodies = <<>>
            /\ ctx.progress.processed_items =
                  Len(hist[1].fetched) +
                  (IF frame[1].pc = "fetch" \/ LimitTerminated(1) THEN 1 ELSE 0)

C18_Witness ==
    /\ calls = 2
    /\ LimitTerminated(1)
    /\ frame[1].limit = 1
    /\ hist[1].accepted = <<2, 3>>
    /\ ThreadIdsOf(frame[1].threads) = <<2>>
    /\ CtxOf(1).progress.processed_items = 2

\* C19: throughout a call, from its first list request to the requests of
\* the later pages, the list arguments hold maxResults exactly when a limit
\* was given and is below DEFAULT_PAGE_SIZE, and then maxResults is the
\* limit.
C19_MaxResultsIffSmallLimit ==
    frame[1].pc \notin {"idle", "bind"} =>
        /\ "maxResults" \in DOMAIN frame[1].kwargs <=>
              (frame[1].limit /= NoLimit /\ frame[1].limit < DEFAULT_PAGE_SIZE)
        /\ "maxResults" \in DOMAIN frame[1].kwargs =>
              frame[1].kwargs.maxResults = frame[1].limit

====
